---------------------------- MODULE Spec2Model ----------------------------
(***************************************************************************)
(* A model of the opentelemetry-aws crate: the X-Ray identifier generator  *)
(* (id.rs), the X-Amzn-Trace-Id header codec (format/mod.rs), the HTTP     *)
(* propagator (propagation/http_propagator.rs) and the Segment document    *)
(* serializer (service/xray.rs).                                           *)
(*                                                                         *)
(* Unsigned integers are fixed-width big-endian sequences of nibbles       *)
(* (u32 = 8 nibbles, u64 = 16, u128 = 32), so that every shift, mask and   *)
(* hex width of the source is computed at its real width.  Strings are     *)
(* sequences of one-character strings.                                     *)
(***************************************************************************)
EXTENDS Integers, Sequences, FiniteSets, TLC

VARIABLES
    carrier,   \* the HTTP carrier: header name -> [present, value]
    input,     \* the arguments of the operation under way
    last,      \* the last operation performed, with its outcome
    now        \* the wall clock: SystemTime::now()

vars == <<carrier, input, last, now>>

---------------------------------------------------------------------------
(* Bounds of the model.                                                    *)

\* Sample integers of each width are numbered 0..MaxSample.
MaxSample == 3
\* Length of the longest subsegments list.
MaxChildren == 2
\* Number of spans in the largest batch exported.
MaxBatch == 2

---------------------------------------------------------------------------
(* Fixed-width unsigned integers as nibble sequences.                      *)

U32Nibbles == 8
U64Nibbles == 16
U128Nibbles == 32

Zeros(n) == [i \in 1..n |-> 0]

Ones(n) == [i \in 1..n |-> 15]

IsZero(x) == \A i \in 1..Len(x) : x[i] = 0

\* The sample integers of width w nibbles: 0, 1, the largest value, then
\* patterns that mix digits and letters.
SampleNum(w, k) ==
    [i \in 1..w |->
        CASE k = 0 -> 0
          [] k = 1 -> IF i = w THEN 1 ELSE 0
          [] k = 2 -> 15
          [] OTHER -> ((2 * k + 1) * i + k) % 16]

Samples(w) == {SampleNum(w, k) : k \in 0..MaxSample}

\* x as uN, for N/4 = w >= Len(x): zero extension ("as u128").
Widen(x, w) == Zeros(w - Len(x)) \o x

\* x >> (4*n) at the width of x.
ShrNibbles(x, n) == Zeros(n) \o SubSeq(x, 1, Len(x) - n)

\* x << (4*n) at the width of x: the high nibbles are shifted out.
ShlNibbles(x, n) == SubSeq(x, n + 1, Len(x)) \o Zeros(n)

BitOf(a, k) == (a \div (2 ^ k)) % 2

NibbleAnd(a, b) ==
    BitOf(a, 0) * BitOf(b, 0) + 2 * BitOf(a, 1) * BitOf(b, 1)
    + 4 * BitOf(a, 2) * BitOf(b, 2) + 8 * BitOf(a, 3) * BitOf(b, 3)

NibbleOr(a, b) == a + b - NibbleAnd(a, b)

\* x & m and x | m for two integers of the same width.
BitAnd(x, m) == [i \in 1..Len(x) |-> NibbleAnd(x[i], m[i])]

BitOr(x, m) == [i \in 1..Len(x) |-> NibbleOr(x[i], m[i])]

\* The significant nibbles of x: x without its leading zeros (<<>> for 0).
RECURSIVE StripZeros(_)
StripZeros(x) ==
    IF x = <<>> THEN <<>>
    ELSE IF x[1] = 0 THEN StripZeros(Tail(x)) ELSE x

---------------------------------------------------------------------------
(* Hexadecimal text.                                                       *)

LowerHex == <<"0", "1", "2", "3", "4", "5", "6", "7",
              "8", "9", "a", "b", "c", "d", "e", "f">>

UpperHex == <<"0", "1", "2", "3", "4", "5", "6", "7",
              "8", "9", "A", "B", "C", "D", "E", "F">>

\* [[:xdigit:]]
IsXDigit(c) == \E d \in 1..16 : c = LowerHex[d] \/ c = UpperHex[d]

DigitValue(c) == (CHOOSE d \in 1..16 : c = LowerHex[d] \/ c = UpperHex[d]) - 1

\* format!("{:0Wx}", x): lowercase hex without leading zeros, at least one
\* digit, left-padded with '0' to a MINIMUM width of W; never truncated.
FormatHex(x, minWidth) ==
    LET sig == StripZeros(x)
        digits == IF sig = <<>> THEN <<0>> ELSE sig
        padded == IF Len(digits) < minWidth
                  THEN Zeros(minWidth - Len(digits)) \o digits
                  ELSE digits
    IN  [i \in 1..Len(padded) |-> LowerHex[padded[i] + 1]]

\* format!("{:b}", n) for the integer literals 0 and 1.
FormatBin(n) == IF n = 1 THEN <<"1">> ELSE <<"0">>

\* uN::from_str_radix(s, 16) for a non-empty s of hex digits: Err when the
\* value does not fit w nibbles, whatever the number of leading zeros.
FromStrRadix16(s, w) ==
    LET sig == StripZeros([i \in 1..Len(s) |-> DigitValue(s[i])])
    IN  IF Len(sig) > w
        THEN [ok |-> FALSE, value |-> Zeros(w)]
        ELSE [ok |-> TRUE, value |-> Zeros(w - Len(sig)) \o sig]

\* hex::encode(x.to_be_bytes()): every nibble of x, lowercase, no stripping.
HexEncode(x) == [i \in 1..Len(x) |-> LowerHex[x[i] + 1]]

---------------------------------------------------------------------------
(* opentelemetry::api::SpanContext, as the crate uses it.                  *)

\* api::SpanContext::new(trace_id, span_id, trace_flags, is_remote)
SpanContext(trace_id, span_id, trace_flags, is_remote) ==
    [trace_id |-> trace_id, span_id |-> span_id,
     trace_flags |-> trace_flags, is_remote |-> is_remote]

\* SpanContext::is_valid: a non-zero TraceId and a non-zero SpanId.
IsValid(sc) == ~IsZero(sc.trace_id) /\ ~IsZero(sc.span_id)

\* SpanContext::is_sampled: the sampled bit of the trace flags.
IsSampled(sc) == sc.trace_flags = "TRACE_FLAG_SAMPLED"

---------------------------------------------------------------------------
(* format/mod.rs: the X-Amzn-Trace-Id header codec.                        *)

\* const ROOT_MASK: u128 = 0xffffffffffffffffffffffff
ROOT_MASK == Zeros(8) \o Ones(24)

RootPrefix == <<"R", "o", "o", "t", "=", "1", "-">>

ParentPrefix == <<"P", "a", "r", "e", "n", "t", "=">>

SampledPrefix == <<"S", "a", "m", "p", "l", "e", "d", "=">>

SampledOne == SampledPrefix \o <<"1">>

\* span_context with {:x} in place of the zero-padded {:08x}, {:024x}, {:016x}.
span_context_unpadded(sc) ==
    RootPrefix
    \o FormatHex(ShrNibbles(sc.trace_id, 24), 1)
    \o <<"-">>
    \o FormatHex(BitAnd(sc.trace_id, ROOT_MASK), 1)
    \o <<";">> \o ParentPrefix
    \o FormatHex(sc.span_id, 1)
    \o <<";">> \o SampledPrefix
    \o FormatBin(IF IsSampled(sc) THEN 1 ELSE 0)

\* span_context: the header text of a span context.
span_context(sc) ==
    RootPrefix
    \o FormatHex(ShrNibbles(sc.trace_id, 24), 8)
    \o <<"-">>
    \o FormatHex(BitAnd(sc.trace_id, ROOT_MASK), 24)
    \o <<";">> \o ParentPrefix
    \o FormatHex(sc.span_id, 16)
    \o <<";">> \o SampledPrefix
    \o FormatBin(IF IsSampled(sc) THEN 1 ELSE 0)

\* Whether the literal lit occurs in s at position i.
LiteralAt(s, i, lit) ==
    /\ i + Len(lit) - 1 <= Len(s)
    /\ \A j \in 1..Len(lit) : s[i + j - 1] = lit[j]

\* The length of the longest run of hex digits of s that starts at i:
\* what a greedy [[:xdigit:]]+ consumes there (0: no match).
RECURSIVE XDigitRun(_, _)
XDigitRun(s, i) ==
    IF i > Len(s) \/ ~IsXDigit(s[i]) THEN 0 ELSE 1 + XDigitRun(s, i + 1)

\* RE_ROOT = ^Root=1-([[:xdigit:]]+)-([[:xdigit:]]+), anchored at the start.
\* The first group must be followed by '-', so it is the whole run.
RE_ROOT(header) ==
    LET s1 == Len(RootPrefix) + 1
        n1 == XDigitRun(header, s1)
        dash == s1 + n1
        n2 == XDigitRun(header, dash + 1)
    IN  IF /\ LiteralAt(header, 1, RootPrefix)
           /\ n1 > 0
           /\ LiteralAt(header, dash, <<"-">>)
           /\ n2 > 0
        THEN [matched |-> TRUE,
              cap1 |-> SubSeq(header, s1, dash - 1),
              cap2 |-> SubSeq(header, dash + 1, dash + n2)]
        ELSE [matched |-> FALSE, cap1 |-> <<>>, cap2 |-> <<>>]

\* RE_PARENT = Parent=([[:xdigit:]]+), unanchored: the leftmost match.
RE_PARENT(header) ==
    LET at == {i \in 1..Len(header) :
                  /\ LiteralAt(header, i, ParentPrefix)
                  /\ XDigitRun(header, i + Len(ParentPrefix)) > 0}
    IN  IF at = {}
        THEN [matched |-> FALSE, cap1 |-> <<>>]
        ELSE LET i == CHOOSE k \in at : \A m \in at : k <= m
                 s1 == i + Len(ParentPrefix)
             IN  [matched |-> TRUE,
                  cap1 |-> SubSeq(header, s1, s1 + XDigitRun(header, s1) - 1)]

\* RE_SAMPLED = Sampled=1, unanchored: is_match is a substring search.
RE_SAMPLED(header) ==
    \E i \in 1..Len(header) : LiteralAt(header, i, SampledOne)

NoContext ==
    [some |-> FALSE,
     context |-> SpanContext(Zeros(U128Nibbles), Zeros(U64Nibbles),
                             "TRACE_FLAGS_UNUSED", FALSE)]

\* parse_header with the timestamp shifted by 92 bits instead of 96.
parse_header_shift92(new_span_id, header) ==
    LET root == RE_ROOT(header)
        timestamp == FromStrRadix16(root.cap1, U32Nibbles)
        root_id == FromStrRadix16(root.cap2, U128Nibbles)
        parent == RE_PARENT(header)
        id == FromStrRadix16(parent.cap1, U64Nibbles)
        trace_id == BitOr(ShlNibbles(Widen(timestamp.value, U128Nibbles), 23),
                          BitAnd(root_id.value, ROOT_MASK))
        parent_id == IF parent.matched /\ id.ok THEN id.value ELSE new_span_id
        trace_flags == IF RE_SAMPLED(header)
                       THEN "TRACE_FLAG_SAMPLED" ELSE "TRACE_FLAGS_UNUSED"
    IN  IF ~root.matched \/ ~timestamp.ok \/ ~root_id.ok
        THEN NoContext
        ELSE [some |-> TRUE,
              context |-> SpanContext(trace_id, parent_id, trace_flags, TRUE)]

\* parse_header(generator, header): new_span_id is the SpanId the generator
\* returns when it is asked for one.
parse_header(new_span_id, header) ==
    LET root == RE_ROOT(header)
        timestamp == FromStrRadix16(root.cap1, U32Nibbles)
        root_id == FromStrRadix16(root.cap2, U128Nibbles)
        parent == RE_PARENT(header)
        id == FromStrRadix16(parent.cap1, U64Nibbles)
        trace_id == BitOr(ShlNibbles(Widen(timestamp.value, U128Nibbles), 24),
                          BitAnd(root_id.value, ROOT_MASK))
        parent_id == IF parent.matched /\ id.ok THEN id.value ELSE new_span_id
        trace_flags == IF RE_SAMPLED(header)
                       THEN "TRACE_FLAG_SAMPLED" ELSE "TRACE_FLAGS_UNUSED"
    IN  IF ~root.matched \/ ~timestamp.ok \/ ~root_id.ok
        THEN NoContext
        ELSE [some |-> TRUE,
              context |-> SpanContext(trace_id, parent_id, trace_flags, TRUE)]

---------------------------------------------------------------------------
(* propagation/http_propagator.rs: the propagator.                         *)

\* const HEADER: &'static str = "X-Amzn-Trace-Id"
HEADER == "X-Amzn-Trace-Id"

CarrierKeys == {HEADER, "Host"}

Absent == [present |-> FALSE, value |-> <<>>]

EmptyCarrier == [k \in CarrierKeys |-> Absent]

\* Carrier::set(key, value)
CarrierSet(c, key, value) ==
    [c EXCEPT ![key] = [present |-> TRUE, value |-> value]]

RECURSIVE ApplyCalls(_, _)
ApplyCalls(c, calls) ==
    IF calls = <<>> THEN c
    ELSE ApplyCalls(CarrierSet(c, calls[1].key, calls[1].value), Tail(calls))

\* inject_context without its is_valid guard.
inject_context_unguarded(sc) ==
    <<[key |-> HEADER, value |-> span_context(sc)]>>

\* HttpPropagator::inject_context: the carrier.set calls it makes, in order.
inject_context(sc) ==
    IF ~IsValid(sc)
    THEN <<>>
    ELSE <<[key |-> HEADER, value |-> span_context(sc)]>>

\* HttpPropagator::extract_with_context: unimplemented!() panics on every
\* call, whatever the context and the carrier hold.
extract_with_context(c) ==
    [outcome |-> "panic", result |-> NoContext]

---------------------------------------------------------------------------
(* id.rs: the identifier generator.                                        *)

\* A SystemTime: before_epoch when it is earlier than UNIX_EPOCH, else secs
\* whole seconds (u64) and a sub-second part after it.
SystemTime(before_epoch, secs, subsec) ==
    [before_epoch |-> before_epoch, secs |-> secs, subsec |-> subsec]

\* new_trace_id without the mask of the random draw: now << 12 | id.
new_trace_id_unmasked(clock, random) ==
    IF clock.before_epoch
    THEN [outcome |-> "panic", id |-> Zeros(U128Nibbles)]
    ELSE [outcome |-> "returned",
          id |-> BitOr(ShlNibbles(Widen(clock.secs, U128Nibbles), 3), random)]

\* Generator::new_trace_id: random is the u128 the thread's rng returns, clock
\* is SystemTime::now(); duration_since(UNIX_EPOCH).unwrap() panics when the
\* clock is before the epoch.
new_trace_id(clock, random) ==
    IF clock.before_epoch
    THEN [outcome |-> "panic", id |-> Zeros(U128Nibbles)]
    ELSE [outcome |-> "returned",
          id |-> BitOr(ShlNibbles(Widen(clock.secs, U128Nibbles), 3),
                       BitAnd(random, Widen(<<15, 15, 15>>, U128Nibbles)))]

\* Generator::new_span_id: random is the u64 the thread's rng returns.
new_span_id(random) == random

---------------------------------------------------------------------------
(* service/xray.rs: the Segment document and its serialization.  A JSON    *)
(* object is the sequence of its members in the order they are written.    *)

Some(x) == [some |-> TRUE, value |-> x]

NoneString == [some |-> FALSE, value |-> ""]

NoneU64 == [some |-> FALSE, value |-> Zeros(U64Nibbles)]

NoneU128 == [some |-> FALSE, value |-> Zeros(U128Nibbles)]

NoneSeq == [some |-> FALSE, value |-> <<>>]

NoneBool == [some |-> FALSE, value |-> FALSE]

NoneRecord == [some |-> FALSE, value |-> [none |-> TRUE]]

JString(x) == [kind |-> "string", value |-> x]

JNumber(x) == [kind |-> "number", value |-> x]

JBool(x) == [kind |-> "bool", value |-> x]

JNull == [kind |-> "null", value |-> "null"]

JObject(members) == [kind |-> "object", value |-> members]

JArray(items) == [kind |-> "array", value |-> items]

Member(key, value) == [key |-> key, value |-> value]

\* A field with skip_serializing_if = "Option::is_none": serialized is the
\* serialization of the value, which is written only for Some.
SkipNone(key, o, serialized) ==
    IF o.some THEN <<Member(key, serialized)>> ELSE <<>>

\* static SDK: &str = "opentelemetry_aws 1.2.3"
SDK == "opentelemetry_aws 1.2.3"

\* serialize_time: duration_since(UNIX_EPOCH).unwrap() panics on a time
\* before the epoch; as_secs drops the sub-second part.
TimePanics(x) == x.before_epoch

serialize_time(x) == JNumber(x.secs)

\* serialize_trace_id with the mask 0xfff.
serialize_trace_id_mask_fff(o) ==
    IF ~o.some THEN JNull
    ELSE JString(<<"1", "-">>
                 \o FormatHex(ShrNibbles(o.value, 3), 8)
                 \o <<"-">>
                 \o FormatHex(BitAnd(o.value,
                                     Widen(<<15, 15, 15>>, U128Nibbles)), 12))

\* serialize_trace_id: format!("1-{:08x}-{:012x}", x >> 12, x & 0x7ff)
serialize_trace_id(o) ==
    IF ~o.some THEN JNull
    ELSE JString(<<"1", "-">>
                 \o FormatHex(ShrNibbles(o.value, 3), 8)
                 \o <<"-">>
                 \o FormatHex(BitAnd(o.value,
                                     Widen(<<7, 15, 15>>, U128Nibbles)), 12))

serialize_u64_to_hex(x) == JString(HexEncode(x))

serialize_vec_u64_to_hex(o) ==
    IF ~o.some THEN JNull
    ELSE JArray([i \in 1..Len(o.value) |-> JString(HexEncode(o.value[i]))])

serialize_opt_u64_to_hex(o) ==
    IF ~o.some THEN JNull ELSE serialize_u64_to_hex(o.value)

\* Origin::to_str and impl Serialize for Origin
OriginToStr(origin) ==
    CASE origin = "EC2Instance" -> "AWS::EC2::Instance"
      [] origin = "ECSContainer" -> "AWS::ECS::Container"
      [] origin = "ElasticBeanstalk" -> "AWS::ElasticBeanstalk::Environment"

SerializeOrigin(origin) == JString(OriginToStr(origin))

\* impl Serialize for Value: the bare scalar.
SerializeValue(v) ==
    IF v.tag = "String" THEN JString(v.string) ELSE JNumber(v.number)

\* A HashMap<String, Value> is the sequence of its entries in the order its
\* hasher makes it iterate them; it is serialized in that order.
SerializeHashMap(m) ==
    JObject([i \in 1..Len(m) |-> Member(m[i].key, SerializeValue(m[i].value))])

SerializeAWSECS(x) ==
    JObject(SkipNone("container", x.container, JString(x.container.value)))

SerializeAWSEC2(x) ==
    JObject(SkipNone("availability_zone", x.availability_zone,
                     JString(x.availability_zone.value))
            \o SkipNone("instance_id", x.instance_id,
                        JString(x.instance_id.value)))

SerializeAWSElasticBeanstalk(x) ==
    JObject(SkipNone("deployment_id", x.deployment_id,
                     JNumber(x.deployment_id.value))
            \o SkipNone("environment_name", x.environment_name,
                        JString(x.environment_name.value))
            \o SkipNone("version_label", x.version_label,
                        JString(x.version_label.value)))

SerializeAWSXRay(x) == JObject(<<Member("sdk", JString(x.sdk))>>)

SerializeAWS(x) ==
    JObject(SkipNone("account_id", x.account_id, JString(x.account_id.value))
            \o SkipNone("ecs", x.ecs, SerializeAWSECS(x.ecs.value))
            \o SkipNone("ec2", x.ec2, SerializeAWSEC2(x.ec2.value))
            \o SkipNone("elastic_beanstalk", x.elastic_beanstalk,
                        SerializeAWSElasticBeanstalk(x.elastic_beanstalk.value))
            \o <<Member("xray", SerializeAWSXRay(x.xray))>>
            \o SkipNone("operation", x.operation, JString(x.operation.value))
            \o SkipNone("region", x.region, JString(x.region.value))
            \o SkipNone("request_id", x.request_id,
                        JString(x.request_id.value))
            \o SkipNone("queue_url", x.queue_url, JString(x.queue_url.value))
            \o SkipNone("table_name", x.table_name,
                        JString(x.table_name.value)))

SerializeHttpRequest(x) ==
    JObject(SkipNone("client_ip", x.client_ip, JString(x.client_ip.value))
            \o SkipNone("method", x.method, JString(x.method.value))
            \o SkipNone("traced", x.traced, JBool(x.traced.value))
            \o SkipNone("url", x.url, JString(x.url.value))
            \o SkipNone("user_agent", x.user_agent,
                        JString(x.user_agent.value))
            \o SkipNone("x_forwarded_for", x.x_forwarded_for,
                        JBool(x.x_forwarded_for.value)))

SerializeHttpResponse(x) ==
    JObject(SkipNone("content_length", x.content_length,
                     JNumber(x.content_length.value))
            \o SkipNone("status", x.status, JNumber(x.status.value)))

SerializeHttp(x) ==
    JObject(SkipNone("request", x.request,
                     SerializeHttpRequest(x.request.value))
            \o SkipNone("response", x.response,
                        SerializeHttpResponse(x.response.value)))

\* Whether serializing the segment panics: one of its times, or of the times
\* of a subsegment, is before the epoch.
RECURSIVE SegmentPanics(_)
SegmentPanics(seg) ==
    \/ TimePanics(seg.end_time)
    \/ TimePanics(seg.start_time)
    \/ \E i \in 1..Len(seg.subsegments) : SegmentPanics(seg.subsegments[i])

\* #[derive(Serialize)] for Segment, with parent_id skipped when it is None.
RECURSIVE SerializeSegmentSkipParent(_)
SerializeSegmentSkipParent(seg) ==
    JObject(SkipNone("annotations", seg.annotations,
                     SerializeHashMap(seg.annotations.value))
            \o SkipNone("aws", seg.aws, SerializeAWS(seg.aws.value))
            \o <<Member("end_time", serialize_time(seg.end_time))>>
            \o SkipNone("http", seg.http, SerializeHttp(seg.http.value))
            \o <<Member("id", serialize_u64_to_hex(seg.id)),
                 Member("is_progress", JBool(seg.is_progress))>>
            \o SkipNone("metadata", seg.metadata,
                        SerializeHashMap(seg.metadata.value))
            \o <<Member("name", JString(seg.name))>>
            \o SkipNone("origin", seg.origin,
                        SerializeOrigin(seg.origin.value))
            \o (IF seg.precursor_ids.some
                THEN <<Member("precursor_ids",
                              serialize_vec_u64_to_hex(seg.precursor_ids))>>
                ELSE <<>>)
            \o SkipNone("service", seg.service, JString(seg.service.value))
            \o SkipNone("user", seg.user, JString(seg.user.value))
            \o (IF seg.parent_id.some
                THEN <<Member("parent_id",
                              serialize_opt_u64_to_hex(seg.parent_id))>>
                ELSE <<>>)
            \o <<Member("start_time", serialize_time(seg.start_time))>>
            \o (IF seg.subsegments = <<>> THEN <<>>
                ELSE <<Member("subsegments",
                              JArray([i \in 1..Len(seg.subsegments) |->
                                  SerializeSegmentSkipParent(seg.subsegments[i])]))>>)
            \o (IF seg.trace_id.some
                THEN <<Member("trace_id", serialize_trace_id(seg.trace_id))>>
                ELSE <<>>))

\* #[derive(Serialize)] for Segment: the fields in the order of declaration,
\* each with its serde attributes.
RECURSIVE SerializeSegment(_)
SerializeSegment(seg) ==
    JObject(SkipNone("annotations", seg.annotations,
                     SerializeHashMap(seg.annotations.value))
            \o SkipNone("aws", seg.aws, SerializeAWS(seg.aws.value))
            \o <<Member("end_time", serialize_time(seg.end_time))>>
            \o SkipNone("http", seg.http, SerializeHttp(seg.http.value))
            \o <<Member("id", serialize_u64_to_hex(seg.id)),
                 Member("is_progress", JBool(seg.is_progress))>>
            \o SkipNone("metadata", seg.metadata,
                        SerializeHashMap(seg.metadata.value))
            \o <<Member("name", JString(seg.name))>>
            \o SkipNone("origin", seg.origin,
                        SerializeOrigin(seg.origin.value))
            \o (IF seg.precursor_ids.some
                THEN <<Member("precursor_ids",
                              serialize_vec_u64_to_hex(seg.precursor_ids))>>
                ELSE <<>>)
            \o SkipNone("service", seg.service, JString(seg.service.value))
            \o SkipNone("user", seg.user, JString(seg.user.value))
            \o <<Member("parent_id", serialize_opt_u64_to_hex(seg.parent_id)),
                 Member("start_time", serialize_time(seg.start_time))>>
            \o (IF seg.subsegments = <<>> THEN <<>>
                ELSE <<Member("subsegments",
                              JArray([i \in 1..Len(seg.subsegments) |->
                                  SerializeSegment(seg.subsegments[i])]))>>)
            \o (IF seg.trace_id.some
                THEN <<Member("trace_id", serialize_trace_id(seg.trace_id))>>
                ELSE <<>>))

\* serde_json::to_string(&segment)
to_string(seg) ==
    IF SegmentPanics(seg)
    THEN [outcome |-> "panic", doc |-> JNull]
    ELSE [outcome |-> "returned", doc |-> SerializeSegment(seg)]

---------------------------------------------------------------------------
(* The inputs the operations are run on.                                   *)

\* The identifiers of tests::test_span_context:
\* 0x5759e988bd862e3fe1be46a994272793 and 0x53995c3f42cd8ad8.
TestTraceId ==
    <<5, 7, 5, 9, 14, 9, 8, 8, 11, 13, 8, 6, 2, 14, 3, 15,
      14, 1, 11, 14, 4, 6, 10, 9, 9, 4, 2, 7, 2, 7, 9, 3>>

TestSpanId == <<5, 3, 9, 9, 5, 12, 3, 15, 4, 2, 12, 13, 8, 10, 13, 8>>

TraceIds == Samples(U128Nibbles) \cup {TestTraceId}

SpanIds == Samples(U64Nibbles) \cup {TestSpanId}

TraceFlags == {"TRACE_FLAG_SAMPLED", "TRACE_FLAGS_UNUSED"}

Contexts ==
    {SpanContext(t, s, f, r) :
        t \in TraceIds, s \in SpanIds, f \in TraceFlags, r \in BOOLEAN}

UpperEncode(x) == [i \in 1..Len(x) |-> UpperHex[x[i] + 1]]

\* The Root token of a header: well-formed at the fixed widths, and the
\* malformed, short, over-wide and misplaced ones.
RootParts ==
    {RootPrefix \o HexEncode(t) \o <<"-">> \o HexEncode(r) :
        t \in Samples(U32Nibbles), r \in Samples(24)}
    \cup {RootPrefix \o HexEncode(SubSeq(TestTraceId, 1, 8)) \o <<"-">>
              \o HexEncode(SubSeq(TestTraceId, 9, 32)),
          RootPrefix \o UpperEncode(SubSeq(TestTraceId, 1, 8)) \o <<"-">>
              \o UpperEncode(SubSeq(TestTraceId, 9, 32)),
          <<>>,
          RootPrefix \o <<"1", "-", "1">>,
          RootPrefix \o <<"z", "z", "-", "1">>,
          RootPrefix \o HexEncode(SampleNum(U32Nibbles, 1)),
          RootPrefix \o <<"1">> \o HexEncode(Zeros(U32Nibbles)) \o <<"-", "1">>,
          RootPrefix \o HexEncode(SampleNum(U32Nibbles, 1)) \o <<"-", "1">>
              \o HexEncode(Zeros(U128Nibbles)),
          RootPrefix \o HexEncode(SampleNum(U32Nibbles, 1)) \o <<"-", "1">>
              \o HexEncode(SampleNum(24, 1)),
          <<"S", "e", "l", "f", "=", "1", ";">> \o RootPrefix
              \o HexEncode(SampleNum(U32Nibbles, 1)) \o <<"-">>
              \o HexEncode(SampleNum(24, 1))}

ParentParts ==
    {<<";">> \o ParentPrefix \o HexEncode(s) : s \in SpanIds}
    \cup {<<>>,
          <<";">> \o ParentPrefix,
          <<";">> \o ParentPrefix \o <<"z", "z">>,
          <<";">> \o ParentPrefix \o <<"1">> \o HexEncode(Zeros(U64Nibbles))}

SampledParts ==
    {<<>>,
     <<";">> \o SampledPrefix \o <<"1">>,
     <<";">> \o SampledPrefix \o <<"0">>,
     <<";">> \o SampledPrefix \o <<"1", "0">>,
     <<";">> \o SampledPrefix \o <<"t", "r", "u", "e">>}

Headers ==
    {r \o p \o s : r \in RootParts, p \in ParentParts, s \in SampledParts}

\* A carrier as a request arrives with it: empty, or already holding headers.
InitCarriers ==
    {EmptyCarrier,
     CarrierSet(EmptyCarrier, "Host", <<"h">>),
     CarrierSet(CarrierSet(EmptyCarrier, "Host", <<"h">>), HEADER,
                RootPrefix \o <<"1", "-", "1">>)}

NoOp == [op |-> "none"]

UNIX_EPOCH == SystemTime(FALSE, Zeros(U64Nibbles), 0)

\* Wall-clock readings: 32-bit second counts, the largest u64, and a clock
\* set before the epoch.
Clocks ==
    {SystemTime(FALSE, Widen(t, U64Nibbles), ms) :
        t \in (Samples(U32Nibbles) \ {Zeros(U32Nibbles)})
               \cup {SubSeq(TestTraceId, 1, 8)},
        ms \in {0, 500}}
    \cup {UNIX_EPOCH,
          SystemTime(FALSE, SampleNum(U64Nibbles, 2), 0),
          SystemTime(TRUE, Zeros(U64Nibbles), 0)}

---------------------------------------------------------------------------
(* The propagator: one request, whose active span context is input, is     *)
(* injected into the carrier and extracted from it.                        *)

InitPropagator ==
    /\ carrier \in InitCarriers
    /\ input \in Contexts
    /\ last = NoOp
    /\ now = UNIX_EPOCH

InjectContext ==
    LET calls == inject_context(input)
    IN  /\ last.op = "none"
        /\ carrier' = ApplyCalls(carrier, calls)
        /\ last' = [op |-> "inject_context", before |-> carrier,
                    calls |-> calls]
        /\ UNCHANGED <<input, now>>

ExtractWithContext ==
    LET r == extract_with_context(carrier)
    IN  /\ last.op \in {"none", "inject_context"}
        /\ last' = [op |-> "extract_with_context", after |-> last,
                    outcome |-> r.outcome, result |-> r.result]
        /\ UNCHANGED <<carrier, input, now>>

NextPropagator ==
    \/ InjectContext
    \/ ExtractWithContext

Spec == InitPropagator /\ [][NextPropagator]_vars

---------------------------------------------------------------------------
(* The header codec: parse_header applied to the header text input.header, *)
(* with a generator whose new_span_id returns input.new_span_id.           *)

InitFormat ==
    /\ carrier = EmptyCarrier
    /\ input \in [header : Headers, new_span_id : SpanIds]
    /\ last = NoOp
    /\ now = UNIX_EPOCH

ParseHeader ==
    /\ last.op = "none"
    /\ last' = [op |-> "parse_header",
                result |-> parse_header(input.new_span_id, input.header)]
    /\ UNCHANGED <<carrier, input, now>>

NextFormat == ParseHeader

SpecFormat == InitFormat /\ [][NextFormat]_vars

---------------------------------------------------------------------------
(* Properties of the propagator and of the header codec.                   *)

IsLowerHex(c) == \E d \in 1..16 : c = LowerHex[d]

\* Root=1-<8 lowercase hex>-<24 lowercase hex>;Parent=<16 lowercase hex>;
\* Sampled=<0|1>, and nothing else.
IsCanonical(h) ==
    /\ Len(h) = 74
    /\ LiteralAt(h, 1, RootPrefix)
    /\ \A i \in 8..15 : IsLowerHex(h[i])
    /\ h[16] = "-"
    /\ \A i \in 17..40 : IsLowerHex(h[i])
    /\ LiteralAt(h, 41, <<";">> \o ParentPrefix)
    /\ \A i \in 49..64 : IsLowerHex(h[i])
    /\ LiteralAt(h, 65, <<";">> \o SampledPrefix)
    /\ h[74] \in {"0", "1"}

TestHeader ==
    RootPrefix \o HexEncode(SubSeq(TestTraceId, 1, 8)) \o <<"-">>
    \o HexEncode(SubSeq(TestTraceId, 9, 32))
    \o <<";">> \o ParentPrefix \o HexEncode(TestSpanId)
    \o <<";">> \o SampledPrefix \o <<"1">>

\* The header has a field Sampled whose whole value is 1.
SampledFieldIsOne(h) ==
    \E i \in 1..Len(h) :
        /\ LiteralAt(h, i, SampledOne)
        /\ i = 1 \/ h[i - 1] = ";"
        /\ i + Len(SampledOne) > Len(h) \/ h[i + Len(SampledOne)] = ";"

\* C1: injecting a valid context into an empty carrier and extracting from
\* that carrier returns a context with the same TraceId, the same parent
\* SpanId and the same sampled flag.
C1_RoundTrip ==
    (/\ last.op = "extract_with_context"
     /\ last.after.op = "inject_context"
     /\ last.after.before = EmptyCarrier
     /\ IsValid(input))
    => /\ last.outcome = "returned"
       /\ last.result.some
       /\ last.result.context.trace_id = input.trace_id
       /\ last.result.context.span_id = input.span_id
       /\ IsSampled(last.result.context) = IsSampled(input)

\* The codec alone does round-trip: parse_header of span_context(sc) gives
\* back the TraceId, the SpanId and the sampled flag of every valid sc.
CodecRoundTrip ==
    IsValid(input) =>
        \A g \in SpanIds :
            LET r == parse_header(g, span_context(input))
            IN  /\ r.some
                /\ r.context.trace_id = input.trace_id
                /\ r.context.span_id = input.span_id
                /\ IsSampled(r.context) = IsSampled(input)

\* C2: parsing a header of the canonical form and formatting the context
\* parsed reproduces the header text, character for character.
C2_ReEncode ==
    (last.op = "parse_header" /\ IsCanonical(input.header))
    => /\ last.result.some
       /\ span_context(last.result.context) = input.header

C2_Witness ==
    /\ last.op = "parse_header"
    /\ input.header = TestHeader
    /\ IsCanonical(input.header)
    /\ last.result.some
    /\ last.result.context.trace_id = TestTraceId

\* C3: inject on an invalid context (zero TraceId or zero SpanId) makes no
\* carrier.set call and leaves the carrier exactly as it was.
C3_InvalidInjectNoOp ==
    (last.op = "inject_context" /\ (IsZero(input.trace_id) \/ IsZero(input.span_id)))
    => /\ last.calls = <<>>
       /\ carrier = last.before

C3_Witness ==
    /\ last.op = "inject_context"
    /\ IsZero(input.trace_id)
    /\ ~IsZero(input.span_id)
    /\ last.before[HEADER].present
    /\ carrier = last.before

\* C4: inject on a valid context writes exactly one header, X-Amzn-Trace-Id,
\* with the value Root=1-<T>-<S>;Parent=<P>;Sampled=<F>: T the 8 lowercase
\* hex digits of the high 32 bits of the TraceId, S the 24 digits of its low
\* 96 bits, P the 16 digits of the SpanId, F 1 when sampled and 0 otherwise.
C4_InjectFormat ==
    (last.op = "inject_context" /\ ~IsZero(input.trace_id) /\ ~IsZero(input.span_id))
    => /\ Len(last.calls) = 1
       /\ last.calls[1].key = HEADER
       /\ last.calls[1].value =
              RootPrefix
              \o HexEncode(SubSeq(input.trace_id, 1, 8))
              \o <<"-">>
              \o HexEncode(SubSeq(input.trace_id, 9, 32))
              \o <<";">> \o ParentPrefix
              \o HexEncode(input.span_id)
              \o <<";">> \o SampledPrefix
              \o (IF input.trace_flags = "TRACE_FLAG_SAMPLED"
                  THEN <<"1">> ELSE <<"0">>)
       /\ carrier[HEADER] = [present |-> TRUE, value |-> last.calls[1].value]
       /\ \A k \in CarrierKeys \ {HEADER} : carrier[k] = last.before[k]

C4_Witness ==
    /\ last.op = "inject_context"
    /\ input.trace_id = SampleNum(U128Nibbles, 1)
    /\ input.span_id = SampleNum(U64Nibbles, 1)
    /\ Len(last.calls) = 1
    /\ Len(last.calls[1].value) = 74
    /\ carrier[HEADER].present

\* C5: extract never raises an error to its caller: it returns, and it
\* returns "no context" when the carrier has no X-Amzn-Trace-Id header.
C5_ExtractNeverRaises ==
    last.op = "extract_with_context"
    => /\ last.outcome = "returned"
       /\ ~carrier[HEADER].present => ~last.result.some

\* C6: every context parse_header returns is valid and remote: a non-zero
\* TraceId, a non-zero parent SpanId, is_remote true.
C6_ExtractedValidRemote ==
    (last.op = "parse_header" /\ last.result.some)
    => /\ ~IsZero(last.result.context.trace_id)
       /\ ~IsZero(last.result.context.span_id)
       /\ last.result.context.is_remote

\* C7: the context extracted is sampled exactly when the header has a
\* Sampled field whose value is 1.
C7_SampledIffOne ==
    (last.op = "parse_header" /\ last.result.some)
    => (IsSampled(last.result.context) <=> SampledFieldIsOne(input.header))

---------------------------------------------------------------------------
(* The generator: one call of new_trace_id or of new_span_id, the rng      *)
(* returning input.random128 or input.random64.                            *)

\* Values the thread's rng returns for a u128: the samples, and one whose
\* low 12 bits are 0x800.
RngDraws == TraceIds \cup {Widen(<<8, 0, 0>>, U128Nibbles)}

InitId ==
    /\ carrier = EmptyCarrier
    /\ input \in [random128 : RngDraws, random64 : SpanIds]
    /\ last = NoOp
    /\ now \in Clocks

NewTraceId ==
    LET r == new_trace_id(now, input.random128)
    IN  /\ last.op = "none"
        /\ last' = [op |-> "new_trace_id", outcome |-> r.outcome, id |-> r.id]
        /\ UNCHANGED <<carrier, input, now>>

NewSpanId ==
    /\ last.op = "none"
    /\ last' = [op |-> "new_span_id", outcome |-> "returned",
                id |-> new_span_id(input.random64)]
    /\ UNCHANGED <<carrier, input, now>>

\* A second call of new_trace_id, after the first returned last.id: the rng
\* returns a new draw and the clock is read again.
NewTraceIdAgain ==
    /\ last.op = "new_trace_id"
    /\ last.outcome = "returned"
    /\ \E random \in RngDraws :
           /\ now' \in Clocks
           /\ LET r == new_trace_id(now', random)
              IN  last' = [op |-> "new_trace_id_again", outcome |-> r.outcome,
                           first |-> last.id, id |-> r.id]
    /\ UNCHANGED <<carrier, input>>

NextId ==
    \/ NewTraceId
    \/ NewSpanId
    \/ NewTraceIdAgain

SpecId == InitId /\ [][NextId]_vars

\* C8: a TraceId returned by new_trace_id has the epoch-second count of the
\* clock in its high 32 bits and the random draw in all of its low 96 bits.
C8_TraceIdLayout ==
    (last.op = "new_trace_id" /\ last.outcome = "returned")
    => /\ SubSeq(last.id, 1, 8) = SubSeq(now.secs, 9, 16)
       /\ SubSeq(last.id, 9, 32) = SubSeq(input.random128, 9, 32)

---------------------------------------------------------------------------
(* The Segment documents that are serialized.                              *)

\* Segment::builder().build() with start_time and end_time given: every
\* other field at its builder default.
SegmentDefault(start_time, end_time) ==
    [annotations |-> NoneSeq, aws |-> NoneRecord, end_time |-> end_time,
     http |-> NoneRecord, id |-> Zeros(U64Nibbles), is_progress |-> FALSE,
     metadata |-> NoneSeq, name |-> "", origin |-> NoneString,
     precursor_ids |-> NoneSeq, service |-> NoneString, user |-> NoneString,
     parent_id |-> NoneU64, start_time |-> start_time, subsegments |-> <<>>,
     trace_id |-> NoneU128]

\* AWS::builder().build()
AWSDefault ==
    [account_id |-> NoneString, ecs |-> NoneRecord, ec2 |-> NoneRecord,
     elastic_beanstalk |-> NoneRecord, xray |-> [sdk |-> SDK],
     operation |-> NoneString, region |-> NoneString,
     request_id |-> NoneString, queue_url |-> NoneString,
     table_name |-> NoneString]

AWSSample ==
    [AWSDefault EXCEPT
        !.account_id = Some("123456789012"),
        !.ecs = Some([container |-> Some("c1")]),
        !.ec2 = Some([availability_zone |-> NoneString,
                      instance_id |-> Some("i-1")]),
        !.elastic_beanstalk = Some([deployment_id |-> NoneU64,
                                    environment_name |-> Some("env"),
                                    version_label |-> NoneString]),
        !.region = Some("us-west-2")]

HttpSample ==
    [request |-> Some([client_ip |-> NoneString, method |-> Some("GET"),
                       traced |-> Some(TRUE), url |-> Some("http://a/"),
                       user_agent |-> NoneString,
                       x_forwarded_for |-> NoneBool]),
     response |-> NoneRecord]

StringValue(x) == [tag |-> "String", string |-> x, number |-> 0]

NumberValue(n) == [tag |-> "Number", string |-> "", number |-> n]

\* One map of two entries, in the two orders a hasher can iterate it.
MapSamples ==
    {<<[key |-> "str", value |-> StringValue("s")],
       [key |-> "num", value |-> NumberValue(123)]>>,
     <<[key |-> "num", value |-> NumberValue(123)],
       [key |-> "str", value |-> StringValue("s")]>>}

MapSample == CHOOSE m \in MapSamples : m[1].key = "str"

OptionalFields ==
    {"annotations", "aws", "http", "metadata", "origin", "precursor_ids",
     "service", "user", "parent_id", "trace_id"}

EpochPlus(secs) == SystemTime(FALSE, SampleNum(U64Nibbles, secs), 0)

\* 456 << 12, the trace_id of tests::test_empty
TestSegmentTraceId == Zeros(26) \o <<1, 12, 8, 0, 0, 0>>

\* A segment with exactly the optional fields of set present.
SegmentWith(set, trace_id, subsegments) ==
    [annotations |-> IF "annotations" \in set THEN Some(MapSample) ELSE NoneSeq,
     aws |-> IF "aws" \in set THEN Some(AWSSample) ELSE NoneRecord,
     end_time |-> EpochPlus(1),
     http |-> IF "http" \in set THEN Some(HttpSample) ELSE NoneRecord,
     id |-> Widen(<<7, 11>>, U64Nibbles),
     is_progress |-> FALSE,
     metadata |-> IF "metadata" \in set THEN Some(MapSample) ELSE NoneSeq,
     name |-> "the name",
     origin |-> IF "origin" \in set THEN Some("ECSContainer") ELSE NoneString,
     precursor_ids |-> IF "precursor_ids" \in set
                       THEN Some(<<TestSpanId, Zeros(U64Nibbles)>>)
                       ELSE NoneSeq,
     service |-> IF "service" \in set THEN Some("eek") ELSE NoneString,
     user |-> IF "user" \in set THEN Some("u") ELSE NoneString,
     parent_id |-> IF "parent_id" \in set
                   THEN Some(Widen(<<3, 1, 5>>, U64Nibbles)) ELSE NoneU64,
     start_time |-> EpochPlus(1),
     subsegments |-> subsegments,
     trace_id |-> IF "trace_id" \in set THEN Some(trace_id) ELSE NoneU128]

\* The trace_id values serialized: the samples, values around bit 11 and
\* bit 12, and values around 2^44.
SegmentTraceIds ==
    TraceIds
    \cup {TestSegmentTraceId,
          Widen(<<8, 0, 0>>, U128Nibbles),
          Widen(<<15, 15, 15>>, U128Nibbles),
          Widen(<<1, 0, 0, 0>>, U128Nibbles),
          Widen(Ones(11), U128Nibbles),
          Widen(<<1>> \o Zeros(11), U128Nibbles)}
    \cup {ShlNibbles(Widen(t, U128Nibbles), 3) : t \in Samples(U32Nibbles)}

\* The subsegments a segment is given: leaves, a subsegment with a
\* subsegment of its own, and a leaf whose start_time is before the epoch.
ChildPool ==
    {SegmentDefault(EpochPlus(1), EpochPlus(1)),
     SegmentWith(OptionalFields, TestSegmentTraceId, <<>>),
     SegmentWith({"parent_id"}, TestSegmentTraceId,
                 <<SegmentDefault(EpochPlus(1), EpochPlus(1)),
                   SegmentWith({"trace_id", "aws"}, TestTraceId, <<>>)>>),
     SegmentDefault(SystemTime(TRUE, Zeros(U64Nibbles), 0), EpochPlus(1))}

RECURSIVE SeqsUpTo(_, _)
SeqsUpTo(S, n) ==
    IF n = 0 THEN {<<>>}
    ELSE LET shorter == SeqsUpTo(S, n - 1)
         IN  shorter \cup {Append(q, x) : q \in shorter, x \in S}

Segments ==
    {SegmentWith(set, TestSegmentTraceId, <<>>) : set \in SUBSET OptionalFields}
    \cup {SegmentWith(set, TestSegmentTraceId, subs) :
             set \in {{}, OptionalFields},
             subs \in SeqsUpTo(ChildPool, MaxChildren)}
    \cup {SegmentWith({"trace_id"}, v, <<>>) : v \in SegmentTraceIds}
    \cup {[SegmentWith({"annotations", "metadata"}, TestSegmentTraceId, <<>>)
              EXCEPT !.annotations = Some(a), !.metadata = Some(m)] :
             a \in MapSamples \cup {<<>>}, m \in MapSamples}
    \cup {SegmentDefault(s, e) :
             s \in Clocks, e \in {EpochPlus(1), SystemTime(TRUE, Zeros(U64Nibbles), 0)}}

\* lib.rs to_segments: one document per span of the batch, each the
\* serialization of Segment::builder().build(), whose start_time and end_time
\* default to SystemTime::now(); to_string(..).unwrap() passes a panic on.
to_segments(batch, clock) ==
    LET r == to_string(SegmentDefault(clock, clock))
    IN  IF batch > 0 /\ r.outcome = "panic"
        THEN [outcome |-> "panic", documents |-> <<>>]
        ELSE [outcome |-> "returned", documents |-> [i \in 1..batch |-> r.doc]]

\* lib.rs Exporter::export: client_ok is whether put_trace_segments
\* answers Ok.
export(batch, clock, client_ok) ==
    LET docs == to_segments(batch, clock)
    IN  IF docs.outcome = "panic"
        THEN [outcome |-> "panic", documents |-> <<>>]
        ELSE [outcome |-> IF client_ok THEN "Success" ELSE "FailedNotRetryable",
              documents |-> docs.documents]

IsBatch(x) == "batch" \in DOMAIN x

\* Either a Segment to serialize, or a batch of input.batch spans to export
\* at a wall-clock reading.
InitSegment ==
    /\ carrier = EmptyCarrier
    /\ last = NoOp
    /\ \/ input \in Segments /\ now = UNIX_EPOCH
       \/ input \in [batch : 0..MaxBatch] /\ now \in Clocks

\* serde_json::to_string(&segment) on the segment input.
Serialize ==
    LET r == to_string(input)
    IN  /\ last.op = "none"
        /\ ~IsBatch(input)
        /\ last' = [op |-> "to_string", outcome |-> r.outcome, doc |-> r.doc]
        /\ UNCHANGED <<carrier, input, now>>

\* Exporter::export on a batch of input.batch spans.
Export ==
    /\ last.op = "none"
    /\ IsBatch(input)
    /\ \E client_ok \in BOOLEAN :
           LET r == export(input.batch, now, client_ok)
           IN  last' = [op |-> "export", outcome |-> r.outcome,
                        documents |-> r.documents]
    /\ UNCHANGED <<carrier, input, now>>

\* The orders in which a HashMap of these entries can iterate: the hasher
\* is a RandomState, seeded anew for each process and each map.
IterationOrders(o) ==
    IF ~o.some THEN {o}
    ELSE {Some([i \in 1..Len(o.value) |-> o.value[f[i]]]) :
             f \in Permutations(1..Len(o.value))}

\* The sequences whose i-th element is drawn from sets[i].
RECURSIVE SeqProduct(_)
SeqProduct(sets) ==
    IF sets = <<>> THEN {<<>>}
    ELSE {<<x>> \o rest : x \in sets[1], rest \in SeqProduct(Tail(sets))}

\* The same Segment value as built in another run: every field equal, the
\* maps holding the same entries under another hasher seed.
RECURSIVE Rebuilt(_)
Rebuilt(seg) ==
    {[seg EXCEPT !.annotations = a, !.metadata = m, !.subsegments = subs] :
        a \in IterationOrders(seg.annotations),
        m \in IterationOrders(seg.metadata),
        subs \in SeqProduct([i \in 1..Len(seg.subsegments) |->
                                Rebuilt(seg.subsegments[i])])}

\* serde_json::to_string on the same Segment value a second time, in this
\* run or in another one.
SerializeAgain ==
    /\ last.op = "to_string"
    /\ last.outcome = "returned"
    /\ \E again \in Rebuilt(input) :
           last' = [op |-> "to_string_again",
                    outcome |-> to_string(again).outcome,
                    first |-> last.doc, doc |-> to_string(again).doc]
    /\ UNCHANGED <<carrier, input, now>>

NextSegment ==
    \/ Serialize
    \/ SerializeAgain
    \/ Export

SpecSegment == InitSegment /\ [][NextSegment]_vars

---------------------------------------------------------------------------
(* Properties of the serialized Segment.                                   *)

DocKeys(doc) == {doc.value[i].key : i \in 1..Len(doc.value)}

MemberOf(doc, key) ==
    doc.value[CHOOSE i \in 1..Len(doc.value) : doc.value[i].key = key].value

AlwaysKeys == {"id", "is_progress", "name", "start_time", "end_time", "parent_id"}

\* The keys of doc are those the fields of seg call for, at every level of
\* the subsegment tree.
RECURSIVE SegmentKeysRight(_, _)
SegmentKeysRight(seg, doc) ==
    /\ doc.kind = "object"
    /\ Cardinality(DocKeys(doc)) = Len(doc.value)
    /\ DocKeys(doc) =
           AlwaysKeys
           \cup {f \in OptionalFields \ {"parent_id"} : seg[f].some}
           \cup (IF seg.subsegments # <<>> THEN {"subsegments"} ELSE {})
    /\ MemberOf(doc, "id").kind = "string"
    /\ Len(MemberOf(doc, "id").value) = 16
    /\ \A i \in 1..16 : IsLowerHex(MemberOf(doc, "id").value[i])
    /\ (MemberOf(doc, "parent_id").kind = "null") <=> ~seg.parent_id.some
    /\ \A k \in DocKeys(doc) \ {"parent_id"} : MemberOf(doc, k).kind # "null"
    /\ seg.subsegments # <<>> =>
           /\ MemberOf(doc, "subsegments").kind = "array"
           /\ Len(MemberOf(doc, "subsegments").value) = Len(seg.subsegments)
           /\ \A i \in 1..Len(seg.subsegments) :
                  SegmentKeysRight(seg.subsegments[i],
                                   MemberOf(doc, "subsegments").value[i])

\* C9: in a serialized Segment id, is_progress, name, start_time and end_time
\* are always keys, id a 16-hex-digit string; parent_id is always a key, null
\* when unset; every other optional field is a key exactly when it is set
\* and is never null; subsegments is a key exactly when the list is not
\* empty; and so at every nesting level.
C9_SegmentKeys ==
    (last.op = "to_string" /\ last.outcome = "returned")
    => SegmentKeysRight(input, last.doc)

C9_Witness ==
    /\ last.op = "to_string"
    /\ last.outcome = "returned"
    /\ ~input.parent_id.some
    /\ ~input.trace_id.some
    /\ \E i \in 1..Len(input.subsegments) :
           /\ input.subsegments[i].subsegments # <<>>
           /\ input.subsegments[i].parent_id.some
    /\ MemberOf(last.doc, "parent_id").kind = "null"
    /\ "subsegments" \in DocKeys(last.doc)

\* The number the hex digits s write, at a width of w nibbles.
HexValue(s, w) == Zeros(w - Len(s)) \o [i \in 1..Len(s) |-> DigitValue(s[i])]

\* v >> 12 and v & 0x7ff for a u128 v, nibble by nibble.
High116(v) == Zeros(3) \o SubSeq(v, 1, 29)

Low11(v) == Zeros(29) \o <<v[30] % 8, v[31], v[32]>>

---------------------------------------------------------------------------
(* Determinism and totality of the serialization.                          *)

\* Two documents are written as the same bytes: the same members in the
\* same order, with the same values.
RECURSIVE DocEqual(_, _)
DocEqual(a, b) ==
    /\ a.kind = b.kind
    /\ CASE a.kind = "object" ->
               /\ Len(a.value) = Len(b.value)
               /\ \A i \in 1..Len(a.value) :
                      /\ a.value[i].key = b.value[i].key
                      /\ DocEqual(a.value[i].value, b.value[i].value)
         [] a.kind = "array" ->
               /\ Len(a.value) = Len(b.value)
               /\ \A i \in 1..Len(a.value) : DocEqual(a.value[i], b.value[i])
         [] OTHER -> a.value = b.value

\* C11: serializing the same Segment value twice, in the same run or in
\* different runs, gives byte-identical output, also when annotations or
\* metadata hold two or more entries.
C11_Deterministic ==
    (last.op = "to_string_again" /\ last.outcome = "returned")
    => DocEqual(last.first, last.doc)

\* C12: serialization has no runtime error: every Segment the builder
\* constructs, whatever its times, ids and subsegments, serializes to a
\* document, and exporting a batch never aborts the caller.
C12_SerializationNeverFails ==
    /\ last.op \in {"to_string", "to_string_again"} => last.outcome = "returned"
    /\ last.op = "export" => last.outcome \in {"Success", "FailedNotRetryable"}

C14_SerializeInjective ==
    (/\ last.op = "new_trace_id_again"
     /\ last.outcome = "returned"
     /\ last.first # last.id)
    => serialize_trace_id(Some(last.first)) # serialize_trace_id(Some(last.id))

=============================================================================
